---------------------------- MODULE Spec2Model ----------------------------
(***************************************************************************)
(* Model of the langgraph-example repository.                              *)
(*                                                                         *)
(* The repository holds two programs that share one design:                *)
(*   "main"  : src/main.py      - graph  chatbot <-> tools, host loop      *)
(*             stream_graph_updates with a mocked human reply;             *)
(*   "gated" : src/src/graph.py - graph with the intent decision, the      *)
(*             safe/sensitive tool split and the confirmation gate,        *)
(*             driven by src/src/main.py (cli_loop, stream_graph_updates). *)
(*                                                                         *)
(* The graph engine, the language model, the two classifiers and the       *)
(* tools are collaborators outside the repository.  They are modelled by   *)
(* their contract: a node is run, its delta is merged into the thread's    *)
(* state, the conditional edge's evaluator is run on the merged state and  *)
(* its label is looked up in the edge's routing table; a node and its      *)
(* outgoing edge form one superstep, which commits as a whole or not at    *)
(* all.  What the model (LLM) and the classifiers answer is an input: the  *)
(* model may name any tool and any number of calls (the code's own assert  *)
(* treats its output as unchecked), a classifier may raise once its        *)
(* retries are used up.                                                    *)
(*                                                                         *)
(* Spec     : either program as a whole, host loop and graph.              *)
(* SpecGate : the confirmation gate of src/src/graph.py as a component,    *)
(*            started at its node on bounded logs; no run of Spec gets     *)
(*            there, because the edge after the chat node maps the labels  *)
(*            True/False while tools_condition yields "tools"/END.         *)
(***************************************************************************)
EXTENDS Integers, Sequences, FiniteSets, TLC

\* ------------------------------------------------------------------ bounds
\* user turns the host reads before the model stops it
MaxTurns == 2
\* supersteps one run may take (the engine's recursion limit, scaled down)
RecursionLimit == 5
\* tool calls the language model may put into one assistant message
MaxToolCalls == 2

\* ------------------------------------------------------------- constants
MAX_RETRIES == 3

START == "__start__"
END == "__end__"

SearchTool == "tavily_search"
HumanTool == "human_assistance"
ToolNames == {SearchTool, HumanTool}

\* src/main.py: tools = [search_tool, human_assistance]
tools == {SearchTool, HumanTool}
\* src/src/graph.py: safe_tools, sensitive_tools
safe_tools == {SearchTool}
sensitive_tools == {HumanTool}

quit_commands == {"bye"}
UserTexts == {"hi", "bye"}
FallbackInput == "What do you know about LangGraph?"
mocked_response == "We, the experts, are here to help!"
FallbackReply == "Sorry, no one is available right now."
HumanReplies == {"Yes, do it"}
Query == "X"

NoId == <<>>
NoPending == [call_id |-> NoId, query |-> ""]
NoResume == [has |-> FALSE, data |-> ""]

\* ------------------------------------------------------------- messages
HumanMessage(text) ==
  [type |-> "human", content |-> text, tool_calls |-> <<>>, tool_call_id |-> NoId]

AIMessage(text, calls) ==
  [type |-> "ai", content |-> text, tool_calls |-> calls, tool_call_id |-> NoId]

ToolMessage(text, id) ==
  [type |-> "tool", content |-> text, tool_calls |-> <<>>, tool_call_id |-> id]

Last(s) == s[Len(s)]

\* The outputs of one model call: a text and 0..MaxToolCalls tool calls.  The
\* ids of the calls are unique in the log: (position of the message, index).
CallSeqs == UNION {[1..n -> ToolNames] : n \in 0..MaxToolCalls}

LLMOutputs(msgs) ==
  {AIMessage("answer",
             [k \in 1..Len(ns) |-> [name |-> ns[k], id |-> <<Len(msgs) + 1, k>>,
                                    query |-> Query]])
     : ns \in CallSeqs}

IntentAnswers == {"continue", "exit", "error"}
ConfirmAnswers == {"confirm", "deny", "unclear", "error"}


\* ---------------------------------------------------- decision functions
HasToolCalls(m) == m.type = "ai" /\ Len(m.tool_calls) > 0

\* langgraph.prebuilt.tools_condition, as src/main.py documents it: "tools"
\* if the chatbot asks to use a tool, END if it answers directly.
tools_condition(msgs) ==
  IF HasToolCalls(Last(msgs)) THEN "tools" ELSE END

\* check_user_intent: the intent classifier's answer on the last human
\* message; the classifier raises once its retries are used up.
check_user_intent(msgs, answer) ==
  IF answer = "error"
    THEN [raise |-> TRUE, label |-> "", asked |-> <<>>]
    ELSE [raise |-> FALSE, label |-> answer, asked |-> <<>>]

\* detect_sensitive_case: hasattr(last, "tool_calls") and last.tool_calls
\* and last.tool_calls[0]["name"] == "human_assistance_node".  The value of
\* the "and" chain is False, the empty list of calls, or the comparison.
SensitiveName == "human_assistance_node"

detect_sensitive_case(msgs) ==
  LET last == Last(msgs) IN
  IF last.type # "ai" THEN "False"
  ELSE IF Len(last.tool_calls) = 0 THEN "EmptyList"
  ELSE IF last.tool_calls[1].name = SensitiveName THEN "True" ELSE "False"

\* The state a node or an evaluator is handed: built from the channels the
\* State schema declares (messages), so it never holds confirmation_retries.
\* confirmation_retries is the dict key: {} when absent, {n} when set.
ReadState(msgs) == [messages |-> msgs, confirmation_retries |-> {}]

GetRetries(state) ==
  IF state.confirmation_retries = {} THEN 0
  ELSE CHOOSE n \in state.confirmation_retries : TRUE

\* handle_user_confirmation(state) with the classifier's answer as an input:
\* the label returned, the state dict as the call leaves it, and the
\* classifier answers the call consumed.
handle_user_confirmation(state, answer) ==
  LET last == Last(state.messages)
      retries == GetRetries(state)
  IN
  IF last.type # "human"
    THEN [raise |-> FALSE, label |-> "unclear", state |-> state, asked |-> <<>>]
  ELSE IF answer = "error"
    THEN [raise |-> TRUE, label |-> "", state |-> state, asked |-> <<answer>>]
  ELSE IF answer = "unclear"
    THEN [raise |-> FALSE,
          label |-> IF retries + 1 >= MAX_RETRIES THEN "deny" ELSE "unclear",
          state |-> [state EXCEPT !.confirmation_retries = {retries + 1}],
          asked |-> <<answer>>]
  ELSE [raise |-> FALSE, label |-> answer,
        state |-> [state EXCEPT !.confirmation_retries = {}],
        asked |-> <<answer>>]

\* ------------------------------------------------------------ the graphs
Fixed(to) == [kind |-> "fixed", to |-> to, eval |-> "", table |-> <<>>]
Finish == [kind |-> "finish", to |-> END, eval |-> "", table |-> <<>>]
Cond(eval, table) == [kind |-> "cond", to |-> "", eval |-> eval, table |-> table]

EntryPoint(g) == IF g = "main" THEN "chatbot" ELSE "which_intent_decision"

\* src/main.py: add_conditional_edges("chatbot", tools_condition) has no
\* path map, so the label is the name of the next node.
EdgesMain(n) ==
  CASE n = "chatbot" ->
         Cond("tools_condition", [l \in {"tools", END} |-> l])
    [] n = "tools" -> Fixed("chatbot")

EdgesGated(n) ==
  CASE n = "which_intent_decision" ->
         Cond("check_user_intent",
              [l \in {"continue", "exit"} |->
                 IF l = "continue" THEN "chatbot_with_safe_tools_node"
                 ELSE "end_conversation_node"])
    [] n = "chatbot_with_safe_tools_node" ->
         Cond("tools_condition",
              [l \in {"True", "False"} |->
                 IF l = "True" THEN "safe_tools" ELSE "is_sensitive_decision"])
    [] n = "safe_tools" -> Fixed("chatbot_with_safe_tools_node")
    [] n = "is_sensitive_decision" ->
         Cond("detect_sensitive_case",
              [l \in {"True", "False"} |->
                 IF l = "True" THEN "awaiting_user_confirmation_decision"
                 ELSE "chatbot_with_safe_tools_node"])
    [] n = "awaiting_user_confirmation_decision" ->
         Cond("handle_user_confirmation",
              [l \in {"confirm", "deny", "unclear"} |->
                 CASE l = "confirm" -> "human_assistance_node"
                   [] l = "deny" -> "chatbot_with_safe_tools_node"
                   [] l = "unclear" -> "awaiting_user_confirmation_decision"])
    [] n = "human_assistance_node" -> Fixed("sensitive_tools")
    [] n = "sensitive_tools" -> Fixed("chatbot_with_safe_tools_node")
    [] n = "end_conversation_node" -> Finish

Edges(g, n) == IF g = "main" THEN EdgesMain(n) ELSE EdgesGated(n)

NodesMain == {"chatbot", "tools"}
NodesGated ==
  {"which_intent_decision", "chatbot_with_safe_tools_node", "safe_tools",
   "sensitive_tools", "is_sensitive_decision",
   "awaiting_user_confirmation_decision", "human_assistance_node",
   "end_conversation_node"}
Nodes(g) == IF g = "main" THEN NodesMain ELSE NodesGated

\* ------------------------------------------------------- node functions
Delta(ms) ==
  [kind |-> "delta", delta |-> ms, err |-> "", pend |-> NoPending, asked |-> <<>>]
Value(asked) ==
  [kind |-> "value", delta |-> <<>>, err |-> "", pend |-> NoPending, asked |-> asked]
Raise(err, asked) ==
  [kind |-> "raise", delta |-> <<>>, err |-> err, pend |-> NoPending, asked |-> asked]
Interrupt(call) ==
  [kind |-> "interrupt", delta |-> <<>>, err |-> "",
   pend |-> [call_id |-> call.id, query |-> call.query], asked |-> <<>>]

\* chatbot (src/main.py) and chatbot_with_safe_tools (src/src/graph.py): one
\* model call, then assert len(message.tool_calls) <= 1.
chatbot(m) ==
  IF Len(m.tool_calls) <= 1 THEN Delta(<<m>>) ELSE Raise("AssertionError", <<>>)

\* confirm_topic_node: appends the confirmation question, no model call.
\* graph.py defines it but adds no node with it (it is not in NodeFn).
ConfirmPrompt == "Do you want me to consult a human on this topic? (yes/no)"
confirm_topic_node == Delta(<<HumanMessage(ConfirmPrompt)>>)

\* end_conversation_node: one model call on the tool-bound model, no assert.
end_conversation_node(m) == Delta(<<m>>)

\* A variant that hands back the query in place of the reply's "data".
human_assistance_echo(call, res) ==
  IF res.has THEN [suspend |-> FALSE, text |-> call.query]
  ELSE [suspend |-> TRUE, text |-> ""]

\* human_assistance(query): interrupt({"query": query}) suspends the run
\* until a resume value is there; then the tool returns its "data".
human_assistance(call, res) ==
  IF res.has THEN [suspend |-> FALSE, text |-> res.data]
  ELSE [suspend |-> TRUE, text |-> ""]

\* ToolNode(tools=ts): runs the tool calls of the last assistant message and
\* wraps each result into a tool message carrying the call's id.
ToolResult(ts, call, res) ==
  IF call.name \notin ts THEN ToolMessage("Error: not a valid tool", call.id)
  ELSE IF call.name = HumanTool
    THEN ToolMessage(human_assistance(call, res).text, call.id)
  ELSE ToolMessage("search results", call.id)

Suspends(ts, call, res) ==
  call.name \in ts /\ call.name = HumanTool /\ human_assistance(call, res).suspend

ToolNode(ts, msgs, res) ==
  LET last == Last(msgs)
      calls == last.tool_calls
      waiting == {k \in 1..Len(calls) : Suspends(ts, calls[k], res)}
  IN
  IF last.type # "ai" THEN Raise("ValueError", <<>>)
  ELSE IF waiting # {}
    THEN Interrupt(calls[CHOOSE k \in waiting : \A j \in waiting : k <= j])
  ELSE Delta([k \in 1..Len(calls) |-> ToolResult(ts, calls[k], res)])

\* The node table of both graphs.  inp holds what the collaborators answer
\* in this superstep: the model (llm), the intent classifier (intent), the
\* confirmation classifier for the node's call (c1) and the evaluator's (c2).
NodeFn(g, n, msgs, res, inp) ==
  CASE n \in {"chatbot", "chatbot_with_safe_tools_node"} -> chatbot(inp.llm)
    [] n = "tools" -> ToolNode(tools, msgs, res)
    [] n = "safe_tools" -> ToolNode(safe_tools, msgs, res)
    [] n = "sensitive_tools" -> ToolNode(sensitive_tools, msgs, res)
    [] n = "which_intent_decision" -> Delta(<<>>)
    [] n = "is_sensitive_decision" -> Value(<<>>)
    [] n = "awaiting_user_confirmation_decision" ->
         LET r == handle_user_confirmation(ReadState(msgs), inp.c1) IN
         IF r.raise THEN Raise("ClassificationError", r.asked) ELSE Value(r.asked)
    [] n = "human_assistance_node" -> Raise("AttributeError", <<>>)
    [] n = "end_conversation_node" -> end_conversation_node(inp.llm)

Evaluate(eval, msgs, inp) ==
  CASE eval = "tools_condition" ->
         [raise |-> FALSE, label |-> tools_condition(msgs), asked |-> <<>>,
          state |-> ReadState(msgs)]
    [] eval = "check_user_intent" ->
         LET r == check_user_intent(msgs, inp.intent) IN
         [raise |-> r.raise, label |-> r.label, asked |-> r.asked,
          state |-> ReadState(msgs)]
    [] eval = "detect_sensitive_case" ->
         [raise |-> FALSE, label |-> detect_sensitive_case(msgs), asked |-> <<>>,
          state |-> ReadState(msgs)]
    [] eval = "handle_user_confirmation" ->
         handle_user_confirmation(ReadState(msgs), inp.c2)

\* ------------------------------------------------------------ superstep
\* No conditional edge was evaluated.
NoEdge == [ran |-> FALSE, handed |-> ReadState(<<>>), left |-> ReadState(<<>>)]

Failed(err, asked) ==
  [kind |-> "raise", to |-> "", msgs |-> <<>>, err |-> err,
   pend |-> NoPending, asked |-> asked, label |-> "", edge |-> NoEdge]

\* A variant in which a label the table does not hold ends the run.
Route_end(table, label) ==
  IF label \in DOMAIN table THEN table[label] ELSE END

\* The target of a label: the table's entry, or a RoutingError for a label
\* the table does not hold.
Route(table, label) ==
  IF label \in DOMAIN table THEN table[label] ELSE "RoutingError"

\* One superstep: the node, the merge of its delta, the outgoing edge (edge
\* holds the state dict the evaluator was handed and the dict as it left it).  A
\* node whose return value is no delta (a string, a boolean) is outside the
\* engine's node contract: the engine either rejects it (inp.strict) or
\* commits nothing for it.
Superstep(g, n, msgs, res, inp) ==
  LET f == NodeFn(g, n, msgs, res, inp)
      merged == msgs \o f.delta
      e == Edges(g, n)
  IN
  IF f.kind = "raise" THEN Failed(f.err, f.asked)
  ELSE IF f.kind = "interrupt"
    THEN [kind |-> "interrupt", to |-> n, msgs |-> msgs, err |-> "",
          pend |-> f.pend, asked |-> f.asked, label |-> "", edge |-> NoEdge]
  ELSE IF f.kind = "value" /\ inp.strict
    THEN Failed("InvalidUpdateError", f.asked)
  ELSE IF e.kind = "finish"
    THEN [kind |-> "end", to |-> END, msgs |-> merged, err |-> "",
          pend |-> NoPending, asked |-> f.asked, label |-> "", edge |-> NoEdge]
  ELSE IF e.kind = "fixed"
    THEN [kind |-> "next", to |-> e.to, msgs |-> merged, err |-> "",
          pend |-> NoPending, asked |-> f.asked, label |-> "", edge |-> NoEdge]
  ELSE
    LET ev == Evaluate(e.eval, merged, inp)
        to == Route(e.table, ev.label)
        asked == f.asked \o ev.asked
        edge == [ran |-> TRUE, handed |-> ReadState(merged), left |-> ev.state]
    IN
    IF ev.raise THEN [Failed("ClassificationError", asked) EXCEPT !.edge = edge]
    ELSE IF to = "RoutingError"
      THEN [Failed("RoutingError", asked) EXCEPT !.label = ev.label,
                                                 !.edge = edge]
    ELSE [kind |-> IF to = END THEN "end" ELSE "next", to |-> to,
          msgs |-> merged, err |-> "", pend |-> NoPending, asked |-> asked,
          label |-> ev.label, edge |-> edge]

\* What the collaborators may answer in a superstep of node n.
DefaultLLM == AIMessage("answer", <<>>)

Inputs(n, msgs) ==
  LET llms == IF n \in {"chatbot", "chatbot_with_safe_tools_node",
                         "end_conversation_node"}
              THEN LLMOutputs(msgs) ELSE {DefaultLLM}
      intents == IF n = "which_intent_decision" THEN IntentAnswers ELSE {"continue"}
      gate == n = "awaiting_user_confirmation_decision"
      confirms == IF gate /\ Last(msgs).type = "human"
                  THEN ConfirmAnswers ELSE {"unclear"}
      stricts == IF n \in {"awaiting_user_confirmation_decision",
                           "is_sensitive_decision"}
                 THEN BOOLEAN ELSE {FALSE}
  IN [llm : llms, intent : intents, c1 : confirms, c2 : confirms, strict : stricts]

\* ---------------------------------------------------------------- state
VARIABLES
  program,        \* "main" (src/main.py) or "gated" (src/src)
  hostpc,         \* the host loop: "prompt", "events", "resumed", "stopped"
  turns,          \* user inputs read so far
  inFallback,     \* src/main.py: the except branch's fallback turn is running
  terminal_node,  \* src/src/main.py: what stream_graph_updates returned last
  messages,       \* the thread's checkpointed message log
  status,         \* the run: "idle", "running", "final", "suspended", "failed"
  error,          \* the exception of a failed run
  cur,            \* the node the next superstep runs
  steps,          \* supersteps taken by the run
  pending,        \* the checkpoint's pending interrupt
  resume,         \* the value a Command(resume=...) carries into the run
  path,           \* history: the nodes the run has started, in order
  entry,          \* history: the run started from "input" or from "resume"
  runStart,       \* history: the length of the log when the run's input came
  intent,         \* history: the label check_user_intent returned in the run
  chatOut,        \* history: the chat node's last model output in the run
  label,          \* history: the last label a conditional edge produced
  asked,          \* history: the confirmation classifier's answers in the run
  gate,           \* history: "none", "awaiting", "confirmed", "denied"
  executed,       \* history: ids of the calls human_assistance was run for
  confirmed,      \* history: ids of the calls the gate resolved to confirm
  consumed,       \* history: the resumes, each [call_id, reply]
  edge            \* history: the last superstep's edge evaluation

hostVars == <<program, hostpc, turns, inFallback, terminal_node>>
runVars == <<messages, status, error, cur, steps, pending, resume>>
histVars == <<path, entry, runStart, intent, chatOut, label, asked, gate,
              executed, confirmed, consumed, edge>>
vars == <<hostVars, runVars, histVars>>

NoMessage ==
  [type |-> "none", content |-> "", tool_calls |-> <<>>, tool_call_id |-> NoId]

GateNode == "awaiting_user_confirmation_decision"
ChatNodes == {"chatbot", "chatbot_with_safe_tools_node"}
ToolNodes == {"tools", "safe_tools", "sensitive_tools"}

ToolsOf(n) ==
  CASE n = "tools" -> tools
    [] n = "safe_tools" -> safe_tools
    [] n = "sensitive_tools" -> sensitive_tools
    [] OTHER -> {}

\* The ids of the calls of the last assistant message of the log.
LastAI(msgs) ==
  IF \E i \in 1..Len(msgs) : msgs[i].type = "ai"
    THEN msgs[CHOOSE i \in 1..Len(msgs) :
                /\ msgs[i].type = "ai"
                /\ \A j \in (i + 1)..Len(msgs) : msgs[j].type # "ai"]
    ELSE NoMessage

CallIds(m) == {m.tool_calls[k].id : k \in 1..Len(m.tool_calls)}

\* The calls a ToolNode superstep hands to human_assistance.
HumanCalls(n, msgs) ==
  IF n \in ToolNodes /\ Last(msgs).type = "ai"
    THEN {Last(msgs).tool_calls[k].id :
            k \in {j \in 1..Len(Last(msgs).tool_calls) :
                     /\ Last(msgs).tool_calls[j].name = HumanTool
                     /\ HumanTool \in ToolsOf(n)}}
    ELSE {}

\* A variant in which the input replaces the thread's log.
StartRun_replace(text) ==
  /\ messages' = <<HumanMessage(text)>>
  /\ status' = "running"
  /\ error' = ""
  /\ cur' = EntryPoint(program)
  /\ steps' = 0
  /\ pending' = NoPending
  /\ resume' = NoResume
  /\ path' = <<>>
  /\ entry' = "input"
  /\ runStart' = Len(messages)
  /\ intent' = ""
  /\ chatOut' = NoMessage
  /\ label' = ""
  /\ asked' = <<>>
  /\ gate' = "none"
  /\ edge' = NoEdge
  /\ UNCHANGED <<executed, confirmed, consumed>>

\* graph.stream(input, config): the input is merged into the thread's state
\* and the run starts at the entry point.
StartRun(text) ==
  /\ messages' = Append(messages, HumanMessage(text))
  /\ status' = "running"
  /\ error' = ""
  /\ cur' = EntryPoint(program)
  /\ steps' = 0
  /\ pending' = NoPending
  /\ resume' = NoResume
  /\ path' = <<>>
  /\ entry' = "input"
  /\ runStart' = Len(messages)
  /\ intent' = ""
  /\ chatOut' = NoMessage
  /\ label' = ""
  /\ asked' = <<>>
  /\ gate' = "none"
  /\ edge' = NoEdge
  /\ UNCHANGED <<executed, confirmed, consumed>>

\* A variant that streams the reply as a new run from the entry point.
ResumeRun_restart(reply) ==
  /\ status' = "running"
  /\ error' = ""
  /\ steps' = 0
  /\ resume' = [has |-> TRUE, data |-> reply]
  /\ consumed' = Append(consumed, [call_id |-> pending.call_id, reply |-> reply])
  /\ pending' = NoPending
  /\ path' = <<>>
  /\ entry' = "resume"
  /\ edge' = NoEdge
  /\ cur' = EntryPoint(program)
  /\ UNCHANGED <<messages, runStart, intent, chatOut, label, asked, gate,
                 executed, confirmed>>

\* graph.stream(Command(resume={"data": reply}), config): the run goes on at
\* the suspended node, which finds reply as the value of its interrupt.
ResumeRun(reply) ==
  /\ status' = "running"
  /\ error' = ""
  /\ steps' = 0
  /\ resume' = [has |-> TRUE, data |-> reply]
  /\ consumed' = Append(consumed, [call_id |-> pending.call_id, reply |-> reply])
  /\ pending' = NoPending
  /\ path' = <<>>
  /\ entry' = "resume"
  /\ edge' = NoEdge
  /\ UNCHANGED <<messages, cur, runStart, intent, chatOut, label, asked, gate,
                 executed, confirmed>>

Init ==
  /\ program \in {"main", "gated"}
  /\ hostpc = "prompt"
  /\ turns = 0
  /\ inFallback = FALSE
  /\ terminal_node = "None"
  /\ messages = <<>>
  /\ status = "idle"
  /\ error = ""
  /\ cur = START
  /\ steps = 0
  /\ pending = NoPending
  /\ resume = NoResume
  /\ path = <<>>
  /\ entry = "input"
  /\ runStart = 0
  /\ intent = ""
  /\ chatOut = NoMessage
  /\ label = ""
  /\ asked = <<>>
  /\ gate = "none"
  /\ executed = {}
  /\ confirmed = {}
  /\ consumed = <<>>
  /\ edge = NoEdge

\* ------------------------------------------------------------ the engine
\* One superstep of the running graph, or the recursion limit's error.
NodeStep ==
  /\ status = "running"
  /\ IF steps >= RecursionLimit
       THEN /\ status' = "failed"
            /\ error' = "GraphRecursionError"
            /\ UNCHANGED <<messages, cur, steps, pending, resume, histVars>>
       ELSE \E inp \in Inputs(cur, messages) :
              LET r == Superstep(program, cur, messages, resume, inp) IN
              /\ steps' = steps + 1
              /\ path' = Append(path, cur)
              /\ messages' = IF r.kind \in {"next", "end"} THEN r.msgs ELSE messages
              /\ status' = CASE r.kind = "next" -> "running"
                             [] r.kind = "end" -> "final"
                             [] r.kind = "interrupt" -> "suspended"
                             [] r.kind = "raise" -> "failed"
              /\ error' = IF r.kind = "raise" THEN r.err ELSE ""
              /\ cur' = IF r.kind \in {"next", "end"} THEN r.to ELSE cur
              /\ pending' = IF r.kind = "interrupt" THEN r.pend ELSE NoPending
              /\ resume' = IF cur \in ToolNodes THEN NoResume ELSE resume
              /\ intent' = IF cur = "which_intent_decision" THEN r.label ELSE intent
              /\ chatOut' = IF cur \in ChatNodes THEN inp.llm ELSE chatOut
              /\ label' = r.label
              /\ asked' = asked \o r.asked
              /\ gate' = CASE cur = GateNode /\ r.label = "confirm" -> "confirmed"
                           [] cur = GateNode /\ r.label = "deny" -> "denied"
                           [] cur # GateNode /\ r.kind = "next" /\ r.to = GateNode
                                -> "awaiting"
                           [] OTHER -> gate
              /\ executed' = executed \cup HumanCalls(cur, messages)
              /\ confirmed' = IF cur = GateNode /\ r.label = "confirm"
                                THEN confirmed \cup CallIds(LastAI(messages))
                                ELSE confirmed
              /\ edge' = r.edge
              /\ UNCHANGED <<entry, runStart, consumed>>
  /\ UNCHANGED hostVars

\* ------------------------------------------------------------- the hosts
\* The host reads a user input.  src/main.py leaves its loop on a quit
\* command; src/src/main.py's cli_loop hands every non-empty input to
\* stream_graph_updates.
UserInput ==
  /\ hostpc = "prompt"
  /\ turns < MaxTurns
  /\ \E text \in UserTexts :
       /\ turns' = turns + 1
       /\ IF program = "main" /\ text \in quit_commands
            THEN /\ hostpc' = "stopped"
                 /\ UNCHANGED <<runVars, histVars>>
            ELSE /\ hostpc' = "events"
                 /\ StartRun(text)
  /\ UNCHANGED <<program, inFallback, terminal_node>>

\* input() raises: src/main.py's bare except runs one fallback turn and
\* stops; cli_loop catches EOFError and stops.
InputUnavailable ==
  /\ hostpc = "prompt"
  /\ IF program = "main"
       THEN /\ hostpc' = "events"
            /\ inFallback' = TRUE
            /\ StartRun(FallbackInput)
       ELSE /\ hostpc' = "stopped"
            /\ UNCHANGED <<inFallback, runVars, histVars>>
  /\ UNCHANGED <<program, turns, terminal_node>>

\* interactive_human_handler: the human's reply, or the fallback text when
\* input() raises EOFError.
interactive_human_handler == HumanReplies \cup {FallbackReply}

\* The host sees an "__interrupt__" event.
\*   src/main.py (outer loop): resumes with the mocked reply and then reads
\*   the resumed stream.
\*   src/src/main.py: when the last assistant message it saw carries a tool
\*   call, it appends a tool message of its own to its state and streams that
\*   state as a new input; otherwise it resumes with Command.
HostInterrupt ==
  /\ hostpc = "events"
  /\ status = "suspended"
  /\ IF program = "main"
       THEN /\ hostpc' = "resumed"
            /\ ResumeRun(mocked_response)
       ELSE /\ hostpc' = "events"
            /\ \E reply \in interactive_human_handler :
                 LET last_ai_message == LastAI(messages) IN
                 IF HasToolCalls(last_ai_message)
                   THEN /\ messages' = Append(messages,
                               ToolMessage(reply, last_ai_message.tool_calls[1].id))
                        /\ status' = "running"
                        /\ error' = ""
                        /\ cur' = EntryPoint(program)
                        /\ steps' = 0
                        /\ pending' = NoPending
                        /\ resume' = NoResume
                        /\ path' = <<>>
                        /\ entry' = "input"
                        /\ runStart' = Len(messages)
                        /\ intent' = ""
                        /\ chatOut' = NoMessage
                        /\ label' = ""
                        /\ asked' = <<>>
                        /\ gate' = "none"
                        /\ edge' = NoEdge
                        /\ UNCHANGED <<executed, confirmed, consumed>>
                   ELSE ResumeRun(reply)
  /\ UNCHANGED <<program, turns, inFallback, terminal_node>>

\* src/src/main.py asks "Do you want to consult a human? (yes/no)" itself
\* when the node it tracked is named HostPromptNode.
HostPromptNode == "awaiting_user_confirmation"
HostPrompted == \E i \in 1..Len(path) : path[i] = HostPromptNode

\* The stream is exhausted and stream_graph_updates returns.  src/main.py's
\* inner loop over the resumed stream only prints: an interrupt raised there
\* is left pending.  src/src/main.py returns "END" when the node it tracked
\* is named "end_conversation".
StreamEnded ==
  \/ status = "final"
  \/ program = "main" /\ hostpc = "resumed" /\ status = "suspended"

HostReturn ==
  /\ hostpc \in {"events", "resumed"}
  /\ StreamEnded
  /\ terminal_node' =
       IF program = "gated" /\ \E i \in 1..Len(path) : path[i] = "end_conversation"
         THEN "END" ELSE "None"
  /\ hostpc' = IF program = "main"
                 THEN (IF inFallback THEN "stopped" ELSE "prompt")
                 ELSE (IF terminal_node' = "END" THEN "stopped" ELSE "prompt")
  /\ UNCHANGED <<program, turns, inFallback, runVars, histVars>>

\* The run raised.  src/main.py's bare except runs the fallback turn once;
\* cli_loop catches only EOFError and KeyboardInterrupt, so the host dies.
HostError ==
  /\ hostpc \in {"events", "resumed"}
  /\ status = "failed"
  /\ IF program = "main" /\ ~inFallback
       THEN /\ hostpc' = "events"
            /\ inFallback' = TRUE
            /\ StartRun(FallbackInput)
       ELSE /\ hostpc' = "stopped"
            /\ UNCHANGED <<inFallback, runVars, histVars>>
  /\ UNCHANGED <<program, turns, terminal_node>>

Next ==
  \/ UserInput
  \/ InputUnavailable
  \/ NodeStep
  \/ HostInterrupt
  \/ HostReturn
  \/ HostError

Spec == Init /\ [][Next]_vars

\* ------------------------------------------------------ the gate alone
\* The confirmation gate as a component: the gated graph's run standing at
\* awaiting_user_confirmation_decision.  The log holds the user's request and
\* the assistant's call of the sensitive tool; its last message is that call
\* (what the edge from is_sensitive_decision delivers), a human reply to the
\* confirmation question, or a tool message.
GateRequest ==
  <<HumanMessage("hi"),
    AIMessage("answer", <<[name |-> HumanTool, id |-> <<2, 1>>, query |-> Query]>>)>>

GateLogs ==
  {GateRequest}
    \cup {Append(GateRequest, HumanMessage(t)) : t \in {"yes", "maybe"}}
    \cup {Append(GateRequest, ToolMessage("search results", <<2, 1>>))}

InitGate ==
  /\ program = "gated"
  /\ hostpc = "events"
  /\ turns = 1
  /\ inFallback = FALSE
  /\ terminal_node = "None"
  /\ messages \in GateLogs
  /\ status = "running"
  /\ error = ""
  /\ cur = GateNode
  /\ steps = 0
  /\ pending = NoPending
  /\ resume = NoResume
  /\ path = <<>>
  /\ entry = "input"
  /\ runStart = 0
  /\ intent = "continue"
  /\ chatOut = GateRequest[2]
  /\ label = "True"
  /\ asked = <<>>
  /\ gate = "awaiting"
  /\ executed = {}
  /\ confirmed = {}
  /\ consumed = <<>>
  /\ edge = NoEdge

NextGate ==
  \/ NodeStep
  \/ HostError

SpecGate == InitGate /\ [][NextGate]_vars

\* ================================================================ claims
Count(seq, x) == Cardinality({i \in 1..Len(seq) : seq[i] = x})
Ended == status \in {"final", "suspended", "failed"}
ToolResults(id) ==
  {i \in 1..Len(messages) :
     messages[i].type = "tool" /\ messages[i].tool_call_id = id}

\* C1: human_assistance is run only for a call the confirmation gate has
\* resolved to confirm, and after a deny the run is back at the chat node
\* without having run it.
C1_SensitiveOnlyAfterConfirm ==
  /\ executed \subseteq confirmed
  /\ (status = "running" /\ gate = "denied" /\ label = "deny") => cur \in ChatNodes

\* The classifier answered every question it was asked (it did not raise).
Answered == error # "ClassificationError"

C4_ResumeReply ==
  \A k \in 1..Len(consumed) :
    LET c == consumed[k]
        fresh == k = Len(consumed) /\ entry = "resume" /\ steps = 0
    IN
    /\ \A i \in ToolResults(c.call_id) : messages[i].content = c.reply
    /\ Cardinality(ToolResults(c.call_id)) = (IF fresh THEN 0 ELSE 1)

C4_Witness ==
  /\ Len(consumed) >= 1
  /\ \E i \in ToolResults(consumed[1].call_id) :
       messages[i].content = consumed[1].reply

\* C6: in the gated graph, once the chat node's superstep is over, a
\* sensitive tool call has entered the gate, a safe tool call has not, and
\* the gate is entered for nothing but a sensitive tool call.
ChatCalled(names) ==
  /\ Len(chatOut.tool_calls) = 1
  /\ chatOut.tool_calls[1].name \in names

C6_PartitionDecidesGate ==
  program = "gated" =>
    /\ ChatCalled(sensitive_tools) => gate # "none"
    /\ ChatCalled(safe_tools) => gate = "none"
    /\ gate # "none" => ChatCalled(sensitive_tools)

\* C7: every assistant message in the log carries at most one tool call.
C7_AtMostOneToolCall ==
  \A i \in 1..Len(messages) :
    messages[i].type = "ai" => Len(messages[i].tool_calls) <= 1

\* C8: a run whose intent is exit, once over, has visited the intent
\* decision and the terminal node only, is Final, has added one closing
\* assistant message, and no message of the log carries a tool call.
C8_ExitRun ==
  (program = "gated" /\ intent = "exit" /\ Ended) =>
    /\ status = "final"
    /\ path = <<"which_intent_decision", "end_conversation_node">>
    /\ Len(messages) = runStart + 2
    /\ Last(messages).type = "ai"
    /\ \A i \in 1..Len(messages) : Len(messages[i].tool_calls) = 0

\* C9: a run whose intent is continue and whose chat node answered without
\* a tool call ends as Final, having run the chat node once.
C9_ContinueReturnsOutcome ==
  (program = "gated" /\ intent = "continue" /\ Ended
     /\ chatOut.type = "ai" /\ Len(chatOut.tool_calls) = 0) =>
    /\ status = "final"
    /\ Count(path, "chatbot_with_safe_tools_node") = 1

confirmation_retry_count == GetRetries(ReadState(messages))

PromptAt ==
  {i \in 1..Len(messages) : <<messages[i]>> = confirm_topic_node.delta}

IsPrefix(a, b) == Len(a) <= Len(b) /\ \A i \in 1..Len(a) : a[i] = b[i]

\* C13: the log is append-only: in every step of a run, a resume, a node or
\* the host, the log before the step is a prefix of the log after it.
C13_AppendOnly == [][IsPrefix(messages, messages')]_vars

C13_Witness ==
  /\ turns = MaxTurns
  /\ entry = "resume"
  /\ Len(path) >= 2
  /\ runStart >= 1
  /\ Len(messages) >= runStart + 3

C15_IntentFailureLeavesThread ==
  (/\ program = "gated"
   /\ path = <<"which_intent_decision">>
   /\ error = "ClassificationError") =>
    /\ status = "failed"
    /\ Len(messages) = runStart

\* C17: a run of the gated graph is Final only after end_conversation_node;
\* no run is Final after a tool node, every tool node is followed by the
\* chat node, and in the graph the safe-tool node, the sensitive-tool node
\* and the gate's deny label have the chat node as their only successor.
C17_FinishOnlyFromTerminal ==
  /\ (program = "gated" /\ status = "final") =>
       path # <<>> /\ Last(path) = "end_conversation_node"
  /\ status = "final" => Last(path) \notin ToolNodes \cup {GateNode}
  /\ \A i \in 1..(Len(path) - 1) :
       path[i] \in ToolNodes => path[i + 1] \in ChatNodes
  /\ \A n \in {"safe_tools", "sensitive_tools"} :
       EdgesGated(n) = Fixed("chatbot_with_safe_tools_node")
  /\ EdgesGated(GateNode).table["deny"] = "chatbot_with_safe_tools_node"
  /\ \A n \in NodesGated : EdgesGated(n) = Finish <=> n = "end_conversation_node"

C17_Witness ==
  /\ program = "gated"
  /\ status = "final"
  /\ Last(path) = "end_conversation_node"
  /\ Last(messages).type = "ai"

\* C18: no superstep of the gated graph produces a label that its edge's
\* routing table does not hold: whenever an edge has been evaluated, the
\* label it returned is a key of the table of the node the edge leaves, and
\* the run has not failed with a routing error.
C18_LabelsMapped ==
  (program = "gated" /\ edge.ran /\ error # "ClassificationError") =>
    /\ label \in DOMAIN EdgesGated(Last(path)).table
    /\ error # "RoutingError"

\* C19: when stream_graph_updates has returned (the host is back at its
\* prompt or has stopped), the thread is not suspended: no interrupt the
\* engine raised is left pending.
C19_NoPendingAtReturn ==
  hostpc \in {"prompt", "stopped"} =>
    /\ status # "suspended"
    /\ pending = NoPending

=============================================================================
